---- MODULE Spec2Model ----
(***************************************************************************)
(* A model of pywps.inout.basic: IOHandler (one handle holding one active  *)
(* source: data, file or stream, and converting on demand), SimpleHandler *)
(* (an IOHandler that converts literal data on set_data) and BasicComplex *)
(* (the data format of a complex input or output); of pywps.inout.formats *)
(* (Format and the catalog FORMATS); and of pywps.processing.slurm.       *)
(*                                                                         *)
(* Python values are tagged records; a text is a sequence of one-character *)
(* strings.  The semantics of the built-ins the code calls (int, float,    *)
(* file.write, stream.read, base64) are those of the Python 2 runtime the  *)
(* module is written for (pywps._compat text_type / StringIO).             *)
(***************************************************************************)
EXTENDS Integers, Sequences, FiniteSets, TLC

(***************************************************************************)
(* Bounds of the model.                                                    *)
(***************************************************************************)
\* temp files mkstemp may create in one behaviour
MaxTemp == 2
\* stream objects (caller-made and get_stream-made) in one behaviour
MaxStreams == 1

(***************************************************************************)
(* Python values.                                                          *)
(***************************************************************************)
None == [tag |-> "none"]
PyText(s) == [tag |-> "text", s |-> s]
PyInt(n) == [tag |-> "int", n |-> n]
\* a float m / 10^e, kept normalised (no trailing zero digit in the fraction)
PyFloat(m, e) == [tag |-> "float", m |-> m, e |-> e]
PyBool(b) == [tag |-> "bool", b |-> b]
\* a reference to stream object number id
StreamRef(id) == [tag |-> "stream", id |-> id]

IsText(v) == v.tag = "text"

\* the result of a call: a returned value or a raised exception
Return(v) == [kind |-> "return", val |-> v]
Raise(e) == [kind |-> "raise", exc |-> e]
Returned(r) == r.kind = "return"

(***************************************************************************)
(* Characters.                                                             *)
(***************************************************************************)
Digits == <<"0", "1", "2", "3", "4", "5", "6", "7", "8", "9">>
UpperChars == <<"A", "B", "C", "D", "E", "F", "G", "H", "I", "J", "K", "L", "M",
                "N", "O", "P", "Q", "R", "S", "T", "U", "V", "W", "X", "Y", "Z">>
LowerChars == <<"a", "b", "c", "d", "e", "f", "g", "h", "i", "j", "k", "l", "m",
                "n", "o", "p", "q", "r", "s", "t", "u", "v", "w", "x", "y", "z">>

IsDigit(c) == \E i \in 1..Len(Digits) : Digits[i] = c
DigitVal(c) == (CHOOSE i \in 1..Len(Digits) : Digits[i] = c) - 1
DigitChar(d) == Digits[d + 1]

\* str.lower() on one character
LowerChar(c) ==
    IF \E i \in 1..Len(UpperChars) : UpperChars[i] = c
    THEN LowerChars[CHOOSE i \in 1..Len(UpperChars) : UpperChars[i] = c]
    ELSE c

\* str.lower()
Lower(s) == [i \in 1..Len(s) |-> LowerChar(s[i])]

AllDigits(s) == \A i \in 1..Len(s) : IsDigit(s[i])

\* the value of a digit string, base 10 (0 for the empty string)
RECURSIVE DigitsVal(_)
DigitsVal(s) ==
    IF s = <<>> THEN 0
    ELSE 10 * DigitsVal(SubSeq(s, 1, Len(s) - 1)) + DigitVal(s[Len(s)])

\* the digit string of a natural number
RECURSIVE NatDigits(_)
NatDigits(n) ==
    IF n < 10 THEN <<DigitChar(n)>>
    ELSE NatDigits(n \div 10) \o <<DigitChar(n % 10)>>

RECURSIVE Pow10(_)
Pow10(e) == IF e = 0 THEN 1 ELSE 10 * Pow10(e - 1)

\* n as exactly w digits, zero padded on the left
RECURSIVE PadDigits(_, _)
PadDigits(n, w) ==
    IF w = 0 THEN <<>>
    ELSE PadDigits(n \div 10, w - 1) \o <<DigitChar(n % 10)>>

HasSign(s) == Len(s) > 0 /\ s[1] \in {"-", "+"}
Unsigned(s) == IF HasSign(s) THEN SubSeq(s, 2, Len(s)) ELSE s
SignOf(s) == IF Len(s) > 0 /\ s[1] = "-" THEN -1 ELSE 1

\* the position of the first "." of s, 0 when there is none
DotPos(s) ==
    IF \E i \in 1..Len(s) : s[i] = "."
    THEN CHOOSE i \in 1..Len(s) : s[i] = "." /\ \A j \in 1..(i - 1) : s[j] # "."
    ELSE 0

\* int(text) accepts: an optional sign, then one or more digits
IsIntText(s) == Len(Unsigned(s)) > 0 /\ AllDigits(Unsigned(s))
ParseInt(s) == SignOf(s) * DigitsVal(Unsigned(s))

\* float(text) accepts: an optional sign, then digits with at most one ".",
\* at least one digit in all
IsFloatText(s) ==
    LET u == Unsigned(s)
        d == DotPos(u)
    IN  IF d = 0 THEN Len(u) > 0 /\ AllDigits(u)
        ELSE /\ Len(u) > 1
             /\ AllDigits(SubSeq(u, 1, d - 1))
             /\ AllDigits(SubSeq(u, d + 1, Len(u)))

RECURSIVE Normalise(_, _)
Normalise(m, e) ==
    IF e > 0 /\ m % 10 = 0 THEN Normalise(m \div 10, e - 1) ELSE PyFloat(m, e)

ParseFloat(s) ==
    LET u == Unsigned(s)
        d == DotPos(u)
        ip == IF d = 0 THEN u ELSE SubSeq(u, 1, d - 1)
        fp == IF d = 0 THEN <<>> ELSE SubSeq(u, d + 1, Len(u))
    IN  Normalise(SignOf(s) * DigitsVal(ip \o fp), Len(fp))

SignText(n) == IF n < 0 THEN <<"-">> ELSE <<>>
Abs(n) == IF n < 0 THEN -n ELSE n

IntText(n) == SignText(n) \o NatDigits(Abs(n))

\* str(float): the integer part, ".", and at least one fraction digit
FloatText(f) ==
    LET a == Abs(f.m)
        p == Pow10(f.e)
    IN  SignText(f.m) \o NatDigits(a \div p) \o <<".">>
          \o (IF f.e = 0 THEN <<"0">> ELSE PadDigits(a % p, f.e))

\* pywps._compat.text_type(value): the text form of a value
text_type(v) ==
    CASE v.tag = "text" -> v
      [] v.tag = "int" -> PyText(IntText(v.n))
      [] v.tag = "float" -> PyText(FloatText(v))
      [] v.tag = "bool" -> PyText(IF v.b THEN <<"T", "r", "u", "e">>
                                         ELSE <<"F", "a", "l", "s", "e">>)
      [] OTHER -> PyText(<<"N", "o", "n", "e">>)

\* int(value)
int(v) ==
    CASE v.tag = "text" ->
           IF IsIntText(v.s) THEN Return(PyInt(ParseInt(v.s))) ELSE Raise("ValueError")
      [] v.tag = "int" -> Return(v)
      [] v.tag = "bool" -> Return(PyInt(IF v.b THEN 1 ELSE 0))
      [] v.tag = "float" ->
           Return(PyInt((IF v.m < 0 THEN -1 ELSE 1) * (Abs(v.m) \div Pow10(v.e))))
      [] OTHER -> Raise("TypeError")

\* a float() that takes every value for zero
float_lenient(v) == Return(PyFloat(0, 0))
\* float(value)
float(v) ==
    CASE v.tag = "text" ->
           IF IsFloatText(v.s) THEN Return(ParseFloat(v.s)) ELSE Raise("ValueError")
      [] v.tag = "int" -> Return(PyFloat(v.n, 0))
      [] v.tag = "bool" -> Return(PyFloat(IF v.b THEN 1 ELSE 0, 0))
      [] v.tag = "float" -> Return(v)
      [] OTHER -> Raise("TypeError")

(***************************************************************************)
(* Program constants.                                                      *)
(***************************************************************************)
\* class SOURCE_TYPE
MEMORY == 0
FILE == 1
STREAM == 2
DATA == 3
\* source_type before any set_*: Python's None (a number here so that it
\* compares with the SOURCE_TYPE members, and equal to none of them)
NoSourceType == -1

T_string == <<"s", "t", "r", "i", "n", "g">>
T_integer == <<"i", "n", "t", "e", "g", "e", "r">>
T_float == <<"f", "l", "o", "a", "t">>
T_boolean == <<"b", "o", "o", "l", "e", "a", "n">>
S_true == <<"t", "r", "u", "e">>

\* pywps.inout.literaltypes.LITERAL_DATA_TYPES
LITERAL_DATA_TYPES == {T_float, T_boolean, T_integer, T_string}

(***************************************************************************)
(* The environment the handle lives in.                                    *)
(***************************************************************************)
\* os.getcwd()
Cwd == <<"/", "c">>
\* tempfile.gettempdir()
TempDir == <<"/", "t", "m", "p">>
\* the files that exist before the handle does: path -> contents
InputFiles ==
    (<<"/", "c", "/", "i">> :> <<"f">>) @@ (<<"/", "d", "/", "a">> :> <<"g">>)
\* the file names a caller passes to set_file
FileNames == {<<"i">>, <<"/", "d", "/", "a">>}
\* the contents of the streams a caller makes
StreamContents == {<<"h", "e", "y">>}
\* the values a caller passes to set_data
RawData ==
    { PyText(<<"7">>), PyText(<<".", "5", "0">>), PyText(<<"T", "R", "U", "E">>), PyInt(5) }
\* the number of characters the caller reads from a stream at a time
ReadSize == 2
\* the working directory a base handle is constructed with
WorkDir == PyText(<<"/", "w">>)
\* the data_type a SimpleHandler is constructed with (any spelling: set_data
\* compares data_type.lower())
DataTypes ==
    { None, PyText(T_string), PyText(T_integer), PyText(<<"F", "l", "o", "a", "t">>),
      PyText(T_boolean), PyText(<<"u", "r", "i">>) }

\* os.path.abspath(filename)
abspath(filename) ==
    IF Len(filename) > 0 /\ filename[1] = "/" THEN filename
    ELSE Cwd \o <<"/">> \o filename

\* the name tempfile.mkstemp(dir=dir) gives the n-th temp file: unique per n
mkstemp(dir, n) ==
    (IF dir = None THEN TempDir ELSE dir.s) \o <<"/", "t">> \o NatDigits(n)

VARIABLES
    cls,          \* the handle's class: "IOHandler" or "SimpleHandler"
    data_type,    \* SimpleHandler.data_type
    source_type,  \* IOHandler.source_type
    source,       \* IOHandler.source
    _tempfile,    \* IOHandler._tempfile
    _workdir,     \* IOHandler._workdir
    fs,           \* the file system: path -> contents
    ntemp,        \* the number of files mkstemp has created
    streams,      \* the stream objects: id -> [content, pos]
    lastOp,       \* the last operation called on the handle
    ret,          \* what it returned or raised
    pc,           \* per thread: its place in get_file
    stream_file_name,  \* per thread: get_file's local variable
    tret,         \* per thread: what get_file returned or raised
    fa,           \* the Format the caller made or looked up last
    fb,           \* the Format the caller made or looked up before that
    complex,      \* the BasicComplex object: "new" before __init__, then
                  \* "made", or "failed" when __init__ raised
    supported_formats,  \* BasicComplex.supported_formats
    _data_format, \* BasicComplex._data_format
    slurm_log     \* what Slurm.start did outside the process, in order

handle == <<cls, data_type, source_type, source, _tempfile, _workdir>>
world == <<fs, ntemp, streams>>
threads == <<pc, stream_file_name, tret>>
formats == <<fa, fb>>
negotiator == <<complex, supported_formats, _data_format>>
components == <<formats, negotiator, slurm_log>>
vars == <<handle, world, lastOp, ret, threads, components>>

Threads == {1, 2}

\* Python's truth value of a value
Truthy(v) ==
    CASE v.tag = "none" -> FALSE
      [] v.tag = "text" -> v.s # <<>>
      [] v.tag = "int" -> v.n # 0
      [] v.tag = "float" -> v.m # 0
      [] v.tag = "bool" -> v.b
      [] v.tag = "list" -> v.items # <<>>
      [] OTHER -> TRUE

\* a read() that rewinds first: the whole contents of stream object id
RestFromStart(id) == streams[id].content
\* stream.read(): what is left of stream object id
Rest(id) == SubSeq(streams[id].content, streams[id].pos + 1, Len(streams[id].content))
\* a read() that leaves the position of stream object id where it was
NotExhausted(id) == streams
\* the stream objects after stream.read() on id
Exhausted(id) == [streams EXCEPT ![id].pos = Len(streams[id].content)]
\* a new stream object positioned at the end of content
NewStreamAtEnd(content) == [content |-> content, pos |-> Len(content)]
\* a new stream object positioned at the start of content
NewStream(content) == [content |-> content, pos |-> 0]

\* __init__: the fields every handle starts with
InitFields ==
    /\ source_type = NoSourceType
    /\ source = None
    /\ _tempfile = None
    /\ fs = InputFiles
    /\ ntemp = 0
    /\ streams = <<>>
    /\ lastOp = "__init__"
    /\ ret = Return(None)
    /\ pc = [t \in Threads |-> "idle"]
    /\ stream_file_name = [t \in Threads |-> None]
    /\ tret = [t \in Threads |-> Return(None)]

\* no Format made, no BasicComplex constructed, no Slurm job started
InitComponents ==
    /\ fa = None
    /\ fb = None
    /\ complex = "new"
    /\ supported_formats = None
    /\ _data_format = None
    /\ slurm_log = <<>>

\* IOHandler.__init__
Init ==
    /\ cls = "IOHandler"
    /\ data_type = None
    /\ _workdir = WorkDir
    /\ InitFields
    /\ InitComponents

\* SimpleHandler.__init__, as LiteralOutput and BBoxOutput call it: workdir=None
InitLiteral ==
    /\ cls = "SimpleHandler"
    /\ data_type \in DataTypes
    /\ _workdir = None
    /\ InitFields
    /\ InitComponents

(***************************************************************************)
(* base64 (the standard alphabet, "=" padding).                            *)
(***************************************************************************)
B64Alphabet == UpperChars \o LowerChars \o Digits \o <<"+", "/">>
B64Char(n) == B64Alphabet[n + 1]
IsB64Char(c) == \E i \in 1..64 : B64Alphabet[i] = c
B64Val(c) == (CHOOSE i \in 1..64 : B64Alphabet[i] = c) - 1

\* ord(c) of the characters the model uses (ASCII)
ord(c) ==
    CASE IsDigit(c) -> 48 + DigitVal(c)
      [] \E i \in 1..26 : UpperChars[i] = c -> 64 + (CHOOSE i \in 1..26 : UpperChars[i] = c)
      [] \E i \in 1..26 : LowerChars[i] = c -> 96 + (CHOOSE i \in 1..26 : LowerChars[i] = c)
      [] c = "+" -> 43
      [] c = "-" -> 45
      [] c = "." -> 46
      [] c = "/" -> 47
      [] c = "=" -> 61
\* chr(n), for the same characters
chr(n) ==
    CASE n \in 48..57 -> DigitChar(n - 48)
      [] n \in 65..90 -> UpperChars[n - 64]
      [] n \in 97..122 -> LowerChars[n - 96]
      [] n = 43 -> "+"
      [] n = 45 -> "-"
      [] n = 46 -> "."
      [] n = 47 -> "/"
      [] n = 61 -> "="
IsChr(n) == n \in (48..57) \cup (65..90) \cup (97..122) \cup {43, 45, 46, 47, 61}

\* the base64 text of a text
RECURSIVE B64Enc(_)
B64Enc(s) ==
    IF Len(s) = 0 THEN <<>>
    ELSE IF Len(s) = 1 THEN
        LET n == ord(s[1]) * 16
        IN  <<B64Char(n \div 64), B64Char(n % 64), "=", "=">>
    ELSE IF Len(s) = 2 THEN
        LET n == (ord(s[1]) * 256 + ord(s[2])) * 4
        IN  <<B64Char(n \div 4096), B64Char((n \div 64) % 64), B64Char(n % 64), "=">>
    ELSE
        LET n == ord(s[1]) * 65536 + ord(s[2]) * 256 + ord(s[3])
        IN  <<B64Char(n \div 262144), B64Char((n \div 4096) % 64),
              B64Char((n \div 64) % 64), B64Char(n % 64)>>
            \o B64Enc(SubSeq(s, 4, Len(s)))

\* the bytes of one or more 4-character groups of base64 text
RECURSIVE B64DecBytes(_)
B64DecBytes(s) ==
    IF Len(s) = 0 THEN <<>>
    ELSE IF s[3] = "=" THEN
        <<(B64Val(s[1]) * 64 + B64Val(s[2])) \div 16>>
    ELSE IF s[4] = "=" THEN
        LET n == (B64Val(s[1]) * 4096 + B64Val(s[2]) * 64 + B64Val(s[3])) \div 4
        IN  <<n \div 256, n % 256>>
    ELSE
        LET n == B64Val(s[1]) * 262144 + B64Val(s[2]) * 4096
                   + B64Val(s[3]) * 64 + B64Val(s[4])
        IN  <<n \div 65536, (n \div 256) % 256, n % 256>> \o B64DecBytes(SubSeq(s, 5, Len(s)))

\* well-padded base64 text: whole groups of 4, "=" only as the last one or two
\* characters
IsB64Text(s) ==
    /\ Len(s) % 4 = 0
    /\ \A i \in 1..Len(s) :
          \/ IsB64Char(s[i])
          \/ s[i] = "=" /\ i >= Len(s) - 1 /\ (i = Len(s) - 1 => s[Len(s)] = "=")

\* base64.b64decode(data)
b64decode(data) ==
    IF ~IsText(data) THEN Raise("TypeError")
    ELSE IF ~IsB64Text(data.s) THEN Raise("TypeError")
    ELSE LET b == B64DecBytes(data.s)
         IN  Return(PyText([i \in 1..Len(b) |-> chr(b[i])]))

\* base64.b64encode(data)
b64encode(data) ==
    IF ~IsText(data) THEN Raise("TypeError") ELSE Return(PyText(B64Enc(data.s)))

\* the texts a caller passes to set_base64: "7", and one badly padded
B64Inputs == {PyText(<<"N", "w", "=", "=">>), PyText(<<"N", "w">>)}

(***************************************************************************)
(* The setters.                                                            *)
(***************************************************************************)
\* every operation but a thread's step leaves the threads alone
Sequential(op) ==
    /\ \A t \in Threads : pc[t] = "idle"
    /\ lastOp' = op
    /\ UNCHANGED <<threads, components>>

\* IOHandler.set_file
SetFile(filename) ==
    /\ Sequential("set_file")
    /\ source_type' = FILE
    /\ source' = PyText(abspath(filename))
    /\ ret' = Return(None)
    /\ UNCHANGED <<cls, data_type, _tempfile, _workdir, world>>

\* IOHandler.set_memory_object
SetMemoryObject ==
    /\ Sequential("set_memory_object")
    /\ source_type' = MEMORY
    /\ ret' = Return(None)
    /\ UNCHANGED <<cls, data_type, source, _tempfile, _workdir, world>>

\* IOHandler.set_stream, with a stream the caller has just made
SetStream(content) ==
    /\ Sequential("set_stream")
    /\ Len(streams) < MaxStreams
    /\ streams' = Append(streams, NewStream(content))
    /\ source_type' = STREAM
    /\ source' = StreamRef(Len(streams) + 1)
    /\ ret' = Return(None)
    /\ UNCHANGED <<cls, data_type, _tempfile, _workdir, fs, ntemp>>

\* IOHandler.set_data: the assignments
IOHandler_set_data(data) ==
    /\ source_type' = DATA
    /\ source' = data

\* a set_data that stores data as it came
convert_nothing(dt, data) == Return(data)
\* a conversion whose boolean case compares without lower-casing
convert_case_sensitive(dt, data) ==
    CASE dt = T_string -> Return(text_type(data))
      [] dt = T_integer -> int(data)
      [] dt = T_float -> float(data)
      [] dt = T_boolean ->
           IF IsText(data) THEN Return(PyBool(data.s = S_true))
           ELSE Raise("AttributeError")
      [] OTHER -> Return(data)
\* SimpleHandler.set_data: the conversion of data to the declared type
convert(dt, data) ==
    CASE dt = T_string -> Return(text_type(data))
      [] dt = T_integer -> int(data)
      [] dt = T_float -> float(data)
      [] dt = T_boolean ->
           IF IsText(data) THEN Return(PyBool(Lower(data.s) = S_true))
           ELSE Raise("AttributeError")
      [] OTHER -> Return(data)

\* the data setter the class binds to the data property:
\* IOHandler.set_data or SimpleHandler.set_data
set_data(data) ==
    IF cls = "IOHandler" THEN
        /\ IOHandler_set_data(data)
        /\ ret' = Return(None)
    ELSE IF Truthy(data_type) /\ Lower(data_type.s) \in LITERAL_DATA_TYPES THEN
        LET r == convert(Lower(data_type.s), data)
        IN  IF Returned(r)
            THEN IOHandler_set_data(r.val) /\ ret' = Return(None)
            ELSE ret' = r /\ UNCHANGED <<source_type, source>>
    ELSE
        /\ ret' = Return(None)
        /\ UNCHANGED <<source_type, source>>

\* handle.data = data
SetData(data) ==
    /\ Sequential("set_data")
    /\ set_data(data)
    /\ UNCHANGED <<cls, data_type, _tempfile, _workdir, world>>

\* IOHandler.set_base64
SetBase64(data) ==
    /\ Sequential("set_base64")
    /\ LET d == b64decode(data)
       IN  IF Returned(d) THEN set_data(d.val)
           ELSE ret' = d /\ UNCHANGED <<source_type, source>>
    /\ UNCHANGED <<cls, data_type, _tempfile, _workdir, world>>

(***************************************************************************)
(* The getters.                                                            *)
(***************************************************************************)
\* file.write(data) on a file opened in text mode: the contents written, or
\* the TypeError Python raises for a value that is no text
write(data) ==
    IF IsText(data) THEN Return(data.s) ELSE Raise("TypeError")

\* a get_file without the test of line 128: it materialises on every call
CachedNever == FALSE
\* line 128, "if self._tempfile:": a file was materialised already
Cached == Truthy(_tempfile)

\* IOHandler.get_file
GetFile ==
    /\ Sequential("get_file")
    /\ IF source_type = FILE THEN
           /\ ret' = Return(source)
           /\ UNCHANGED <<_tempfile, world>>
       ELSE IF source_type = STREAM \/ source_type = DATA THEN
           IF Cached THEN
               /\ ret' = Return(_tempfile)
               /\ UNCHANGED <<_tempfile, world>>
           ELSE
               /\ ntemp < MaxTemp
               /\ ntemp' = ntemp + 1
               /\ LET name == mkstemp(_workdir, ntemp + 1)
                      w == IF source_type = STREAM THEN Return(Rest(source.id))
                           ELSE write(source)
                  IN  /\ streams' = IF source_type = STREAM THEN Exhausted(source.id)
                                    ELSE streams
                      /\ IF Returned(w) THEN
                             /\ fs' = (name :> w.val) @@ fs
                             /\ _tempfile' = PyText(name)
                             /\ ret' = Return(PyText(name))
                         ELSE
                             /\ fs' = (name :> <<>>) @@ fs
                             /\ ret' = w
                             /\ UNCHANGED _tempfile
       ELSE
           /\ ret' = Return(None)
           /\ UNCHANGED <<_tempfile, world>>
    /\ UNCHANGED <<cls, data_type, source_type, source, _workdir>>

\* a get_stream that keeps the stream it made as the handle's source
GetStreamKeeping ==
    /\ Sequential("get_stream")
    /\ Len(streams) < MaxStreams
    /\ source_type \in {FILE, DATA}
    /\ streams' = Append(streams,
           NewStream(IF source_type = FILE THEN fs[source.s] ELSE text_type(source).s))
    /\ ret' = Return(StreamRef(Len(streams) + 1))
    /\ source_type' = STREAM
    /\ source' = StreamRef(Len(streams) + 1)
    /\ UNCHANGED <<cls, data_type, _tempfile, _workdir, fs, ntemp>>
\* IOHandler.get_stream, where at most n stream objects are made in one
\* behaviour
GetStreamUpTo(n) ==
    /\ Sequential("get_stream")
    /\ IF source_type = FILE \/ source_type = DATA THEN
           /\ Len(streams) < n
           /\ streams' = Append(streams,
                  NewStream(IF source_type = FILE THEN fs[source.s]
                            ELSE text_type(source).s))
           /\ ret' = Return(StreamRef(Len(streams) + 1))
       ELSE IF source_type = STREAM THEN
           /\ ret' = Return(source)
           /\ UNCHANGED streams
       ELSE
           /\ ret' = Return(None)
           /\ UNCHANGED streams
    /\ UNCHANGED <<handle, fs, ntemp>>

\* IOHandler.get_stream
GetStream == GetStreamUpTo(MaxStreams)

\* IOHandler.get_data: what it returns
get_data ==
    IF source_type = FILE THEN PyText(fs[source.s])
    ELSE IF source_type = STREAM THEN PyText(Rest(source.id))
    ELSE IF source_type = DATA THEN source
    ELSE None

\* IOHandler.get_data: the stream objects after it
get_data_streams ==
    IF source_type = STREAM THEN Exhausted(source.id) ELSE streams

\* value = handle.data
GetData ==
    /\ Sequential("get_data")
    /\ ret' = Return(get_data)
    /\ streams' = get_data_streams
    /\ UNCHANGED <<handle, fs, ntemp>>

\* IOHandler.get_base64
GetBase64 ==
    /\ Sequential("get_base64")
    /\ ret' = b64encode(get_data)
    /\ streams' = get_data_streams
    /\ UNCHANGED <<handle, fs, ntemp>>

\* IOHandler.get_memory_object
GetMemoryObject ==
    /\ Sequential("get_memory_object")
    /\ ret' = Raise("Exception")
    /\ UNCHANGED <<handle, world>>

\* the caller reads n characters from stream object id: stream.read(n)
ReadStream(id, n) ==
    /\ Sequential("read")
    /\ LET s == streams[id]
           m == IF s.pos + n > Len(s.content) THEN Len(s.content) ELSE s.pos + n
       IN  /\ ret' = Return(PyText(SubSeq(s.content, s.pos + 1, m)))
           /\ streams' = [streams EXCEPT ![id].pos = m]
    /\ UNCHANGED <<handle, fs, ntemp>>

Next ==
    \/ \E f \in FileNames : SetFile(f)
    \/ SetMemoryObject
    \/ \E c \in StreamContents : SetStream(c)
    \/ \E d \in RawData : SetData(d)
    \/ \E d \in B64Inputs : SetBase64(d)
    \/ GetFile
    \/ GetStream
    \/ GetData
    \/ GetBase64
    \/ GetMemoryObject
    \/ \E id \in 1..Len(streams) : ReadStream(id, ReadSize)

\* a base IOHandler under every call of its interface
Spec == Init /\ [][Next]_vars

\* the streams get_stream may make in one behaviour of SpecFresh
MaxFresh == 2

\* a FILE or DATA source, the streams get_stream makes for it and the caller's
\* reads of them
NextFresh ==
    \/ \E f \in FileNames : SetFile(f)
    \/ \E d \in RawData : SetData(d)
    \/ GetStreamUpTo(MaxFresh)
    \/ \E id \in 1..Len(streams) : ReadStream(id, ReadSize)

\* a base IOHandler whose caller takes several streams of one source
SpecFresh == Init /\ [][NextFresh]_vars

\* a SimpleHandler under every call of its interface
SpecLiteral == InitLiteral /\ [][Next]_vars

\* the data_type of a SimpleHandler whose set_data converts: the names of
\* LITERAL_DATA_TYPES, one of them in another letter case
ConvertingTypes ==
    {PyText(T_string), PyText(T_integer), PyText(<<"F", "l", "o", "a", "t">>),
     PyText(T_boolean)}

\* SimpleHandler.__init__ with such a data_type
InitTyped ==
    /\ cls = "SimpleHandler"
    /\ data_type \in ConvertingTypes
    /\ _workdir = None
    /\ InitFields
    /\ InitComponents

\* the calls that set a source, and the getters that write a handle's field
\* or read its source without making a stream
NextTyped ==
    \/ \E f \in FileNames : SetFile(f)
    \/ SetMemoryObject
    \/ \E c \in StreamContents : SetStream(c)
    \/ \E d \in RawData : SetData(d)
    \/ \E d \in B64Inputs : SetBase64(d)
    \/ GetFile
    \/ GetData

\* a SimpleHandler of a converting type under its setters, get_file and get_data
SpecTyped == InitTyped /\ [][NextTyped]_vars

(***************************************************************************)
(* get_file called by two threads on one handle.  Python runs a thread's   *)
(* statements one at a time and may switch threads between any two of      *)
(* them, so each thread takes get_file's statements as separate steps.     *)
(***************************************************************************)
\* lines 122-129: the tests on source_type and _tempfile
T_check(t) ==
    /\ pc[t] = "idle"
    /\ IF source_type = FILE THEN
           /\ tret' = [tret EXCEPT ![t] = Return(source)]
           /\ pc' = [pc EXCEPT ![t] = "done"]
       ELSE IF source_type = STREAM \/ source_type = DATA THEN
           IF Cached THEN
               /\ tret' = [tret EXCEPT ![t] = Return(_tempfile)]
               /\ pc' = [pc EXCEPT ![t] = "done"]
           ELSE
               /\ pc' = [pc EXCEPT ![t] = "mkstemp"]
               /\ UNCHANGED tret
       ELSE
           /\ tret' = [tret EXCEPT ![t] = Return(None)]
           /\ pc' = [pc EXCEPT ![t] = "done"]
    /\ UNCHANGED <<handle, world, lastOp, ret, stream_file_name, components>>

\* lines 131-132: mkstemp creates the file, open(name, 'w') leaves it empty
T_mkstemp(t) ==
    /\ pc[t] = "mkstemp"
    /\ ntemp < MaxTemp
    /\ ntemp' = ntemp + 1
    /\ fs' = (mkstemp(_workdir, ntemp + 1) :> <<>>) @@ fs
    /\ stream_file_name' =
           [stream_file_name EXCEPT ![t] = PyText(mkstemp(_workdir, ntemp + 1))]
    /\ pc' = [pc EXCEPT ![t] = "write"]
    /\ UNCHANGED <<handle, streams, lastOp, ret, tret, components>>

\* lines 134-139: write the source and close the file
T_write(t) ==
    /\ pc[t] = "write"
    /\ LET w == IF source_type = STREAM THEN Return(Rest(source.id)) ELSE write(source)
       IN  /\ streams' = IF source_type = STREAM THEN Exhausted(source.id) ELSE streams
           /\ IF Returned(w) THEN
                  /\ fs' = [fs EXCEPT ![stream_file_name[t].s] = w.val]
                  /\ pc' = [pc EXCEPT ![t] = "assign"]
                  /\ UNCHANGED tret
              ELSE
                  /\ tret' = [tret EXCEPT ![t] = w]
                  /\ pc' = [pc EXCEPT ![t] = "done"]
                  /\ UNCHANGED fs
    /\ UNCHANGED <<handle, ntemp, lastOp, ret, stream_file_name, components>>

\* line 140: self._tempfile = str(stream_file_name)
T_assign(t) ==
    /\ pc[t] = "assign"
    /\ _tempfile' = stream_file_name[t]
    /\ pc' = [pc EXCEPT ![t] = "return"]
    /\ UNCHANGED <<cls, data_type, source_type, source, _workdir, world, lastOp, ret,
                   stream_file_name, tret, components>>

\* line 141: return self._tempfile
T_return(t) ==
    /\ pc[t] = "return"
    /\ tret' = [tret EXCEPT ![t] = Return(_tempfile)]
    /\ pc' = [pc EXCEPT ![t] = "done"]
    /\ UNCHANGED <<handle, world, lastOp, ret, stream_file_name, components>>

\* the caller sets a source, then two threads call get_file once each
NextConc ==
    \/ \E f \in FileNames : SetFile(f)
    \/ \E c \in StreamContents : SetStream(c)
    \/ \E d \in RawData : SetData(d)
    \/ \E t \in Threads : T_check(t)
    \/ \E t \in Threads : T_mkstemp(t)
    \/ \E t \in Threads : T_write(t)
    \/ \E t \in Threads : T_assign(t)
    \/ \E t \in Threads : T_return(t)

SpecConc == Init /\ [][NextConc]_vars

(***************************************************************************)
(* pywps.inout.formats: Format, the catalog FORMATS and get_format.  The   *)
(* model only compares the texts of this part, so each is held in one      *)
(* piece; the empty text is the empty sequence, as everywhere.             *)
(***************************************************************************)
\* a non-empty text held in one piece
Str(x) == PyText(<<x>>)
\* the text ''
EmptyText == PyText(<<>>)
\* a function object
PyFunc(name) == [tag |-> "function", name |-> name]
\* a list object
PyList(items) == [tag |-> "list", items |-> items]

\* _FORMAT: an entry of the catalog
_FORMAT(mime_type, extension, schema) ==
    [mime_type |-> mime_type, extension |-> extension, schema |-> schema]

\* FORMATS._asdict(): the catalog by name
FORMATS ==
    (Str("GEOJSON") :> _FORMAT(Str("application/vnd.geo+json"), Str(".geojson"), None)) @@
    (Str("JSON") :> _FORMAT(Str("application/json"), Str(".json"), None)) @@
    (Str("SHP") :> _FORMAT(Str("application/x-zipped-shp"), Str(".zip"), None)) @@
    (Str("GML") :> _FORMAT(Str("application/gml+xml"), Str(".gml"), None)) @@
    (Str("GEOTIFF") :> _FORMAT(Str("image/tiff; subtype=geotiff"), Str(".tiff"), None)) @@
    (Str("WCS") :> _FORMAT(Str("application/xogc-wcs"), Str(".xml"), None)) @@
    (Str("WCS100") :> _FORMAT(Str("application/x-ogc-wcs; version=1.0.0"), Str(".xml"), None)) @@
    (Str("WCS110") :> _FORMAT(Str("application/x-ogc-wcs; version=1.1.0"), Str(".xml"), None)) @@
    (Str("WCS20") :> _FORMAT(Str("application/x-ogc-wcs; version=2.0"), Str(".xml"), None)) @@
    (Str("WFS") :> _FORMAT(Str("application/x-ogc-wfs"), Str(".xml"), None)) @@
    (Str("WFS100") :> _FORMAT(Str("application/x-ogc-wfs; version=1.0.0"), Str(".xml"), None)) @@
    (Str("WFS110") :> _FORMAT(Str("application/x-ogc-wfs; version=1.1.0"), Str(".xml"), None)) @@
    (Str("WFS20") :> _FORMAT(Str("application/x-ogc-wfs; version=2.0"), Str(".xml"), None)) @@
    (Str("WMS") :> _FORMAT(Str("application/x-ogc-wms"), Str(".xml"), None)) @@
    (Str("WMS130") :> _FORMAT(Str("application/x-ogc-wms; version=1.3.0"), Str(".xml"), None)) @@
    (Str("WMS110") :> _FORMAT(Str("application/x-ogc-wms; version=1.1.0"), Str(".xml"), None)) @@
    (Str("WMS100") :> _FORMAT(Str("application/x-ogc-wms; version=1.0.0"), Str(".xml"), None))

\* Format.__init__
Format(mime_type, schema, encoding, validate, extension) ==
    [tag |-> "Format", _mime_type |-> mime_type, _encoding |-> encoding,
     _schema |-> schema, validate |-> validate, extension |-> extension]

\* Format.mime_type
mime_type(self) == self._mime_type
\* an encoding property that returns the field as it is
encoding_raw(self) == self._encoding
\* Format.encoding
encoding(self) == IF Truthy(self._encoding) THEN self._encoding ELSE EmptyText
\* Format.schema
schema(self) == IF Truthy(self._schema) THEN self._schema ELSE EmptyText

\* Format.same_as
same_as(self, frmt) ==
    /\ mime_type(frmt) = mime_type(self)
    /\ encoding(frmt) = encoding(self)
    /\ schema(frmt) = schema(self)

\* an element the ElementMaker makes: elmar.<tag>(text)
Element(tag, text) == [tag |-> tag, text |-> text]

\* a describe_xml that appends Encoding and Schema whatever they hold
describe_xml_all(self) ==
    [tag |-> "Format",
     children |-> <<Element("MimeType", mime_type(self)),
                    Element("Encoding", encoding(self)),
                    Element("Schema", schema(self))>>]
\* Format.describe_xml: the Format element and its children in document order
describe_xml(self) ==
    [tag |-> "Format",
     children |->
         <<Element("MimeType", mime_type(self))>>
         \o (IF Truthy(encoding(self)) THEN <<Element("Encoding", encoding(self))>>
             ELSE <<>>)
         \o (IF Truthy(schema(self)) THEN <<Element("Schema", schema(self))>>
             ELSE <<>>)]

\* a get_format that leaves the validator of a catalog entry unset
get_format_unvalidated(frmt, validator) ==
    IF frmt \in DOMAIN FORMATS
    THEN Format(FORMATS[frmt].mime_type, FORMATS[frmt].schema, None, None,
                FORMATS[frmt].extension)
    ELSE Format(Str("None"), None, None, validator, None)
\* get_format
get_format(frmt, validator) ==
    IF frmt \in DOMAIN FORMATS
    THEN LET formatdef == FORMATS[frmt]
             outfrmt == Format(formatdef.mime_type, formatdef.schema, None, None,
                               formatdef.extension)
         IN  [outfrmt EXCEPT !.validate = validator]
    ELSE Format(Str("None"), None, None, validator, None)

\* what a caller passes to Format(...)
MimeTypes == {Str("text/xml"), Str("application/json")}
Encodings == {None, EmptyText, Str("base64")}
Schemas == {None, EmptyText, Str("http://schemas.opengis.net/gml")}
Validators == {None, PyFunc("validategml")}
Extensions == {None, Str(".xml")}
\* the names a caller passes to get_format: every key of the catalog, keys in
\* another letter case, and a name the catalog has not
FormatNames == (DOMAIN FORMATS) \cup {Str("geojson"), Str("Json"), Str("CSV")}

\* the Format objects the caller holds
Held == {fa, fb} \ {None}

\* an operation of this part leaves the handle and the threads alone
Call(op) ==
    /\ lastOp' = op
    /\ UNCHANGED <<handle, threads>>

\* self.same_as(frmt)
SameAs(self, frmt) ==
    /\ Call("same_as")
    /\ ret' = Return(PyBool(same_as(self, frmt)))
    /\ UNCHANGED <<world, components>>

\* self.describe_xml()
DescribeXml(self) ==
    /\ Call("describe_xml")
    /\ ret' = Return(describe_xml(self))
    /\ UNCHANGED <<world, components>>

\* fa = get_format(frmt, validator)
GetFormat(frmt, validator) ==
    /\ Call("get_format")
    /\ fa' = get_format(frmt, validator)
    /\ fb' = fa
    /\ ret' = Return(fa')
    /\ UNCHANGED <<world, negotiator, slurm_log>>

\* two Formats the caller has made
InitFormat ==
    /\ cls = "IOHandler"
    /\ data_type = None
    /\ _workdir = WorkDir
    /\ InitFields
    /\ fa \in {Format(m, s, e, v, x) : m \in MimeTypes, s \in Schemas, e \in Encodings,
                                        v \in Validators, x \in Extensions}
    /\ fb \in {Format(m, s, e, v, x) : m \in MimeTypes, s \in Schemas, e \in Encodings,
                                        v \in Validators, x \in Extensions}
    /\ complex = "new"
    /\ supported_formats = None
    /\ _data_format = None
    /\ slurm_log = <<>>

NextFormat ==
    \/ \E self \in Held, frmt \in Held : SameAs(self, frmt)
    \/ \E self \in Held : DescribeXml(self)

\* Formats made by the constructor, compared and described
SpecFormat == InitFormat /\ [][NextFormat]_vars

NextCatalog ==
    \/ \E frmt \in FormatNames, validator \in Validators : GetFormat(frmt, validator)
    \/ \E self \in Held, frmt \in Held : SameAs(self, frmt)
    \/ \E self \in Held : DescribeXml(self)

\* Formats looked up in the catalog, compared and described
SpecCatalog == Init /\ [][NextCatalog]_vars

(***************************************************************************)
(* pywps.inout.basic.BasicComplex: the data format of a complex input or   *)
(* output, one of its supported formats.                                   *)
(***************************************************************************)
\* the longest supported_formats list a caller passes
MaxSupported == 2

\* the Formats a caller passes to BasicComplex: two mime types, encoding unset
\* or '', with and without a validator
ComplexFormats ==
    {Format(m, None, e, v, None) :
        m \in MimeTypes, e \in {None, EmptyText}, v \in Validators}

\* the supported_formats a caller passes: None (the default) or a list
SupportedFormats ==
    {None} \cup
    {PyList(l) : l \in UNION {[1..n -> ComplexFormats] : n \in 0..MaxSupported}}

\* an _is_supported that takes every format for supported
_is_supported_always(supported, data_format) == Return(PyBool(TRUE))
\* BasicComplex._is_supported: iterating over None raises TypeError
_is_supported(supported, data_format) ==
    IF supported.tag # "list" THEN Raise("TypeError")
    ELSE Return(PyBool(\E i \in 1..Len(supported.items) :
                           same_as(supported.items[i], data_format)))

\* a setter that stores the supported entry the requested format is the same as
set_data_format_entry(supported, current, data_format) ==
    LET ok == _is_supported(supported, data_format)
    IN  IF ~Returned(ok) THEN [result |-> ok, value |-> current]
        ELSE IF ok.val.b
        THEN [result |-> Return(None),
              value |-> supported.items[CHOOSE i \in 1..Len(supported.items) :
                                            same_as(supported.items[i], data_format)]]
        ELSE [result |-> Raise("InvalidParameterValue"), value |-> current]
\* the setter of BasicComplex.data_format: what the assignment returns or
\* raises, and _data_format after it
set_data_format(supported, current, data_format) ==
    LET ok == _is_supported(supported, data_format)
    IN  IF ~Returned(ok) THEN [result |-> ok, value |-> current]
        ELSE IF ok.val.b THEN [result |-> Return(None), value |-> data_format]
        ELSE [result |-> Raise("InvalidParameterValue"), value |-> current]

\* BasicComplex.__init__(data_format, supported_formats)
Construct(data_format, supported) ==
    /\ complex = "new"
    /\ Call("BasicComplex")
    /\ supported_formats' = supported
    /\ LET first == IF Truthy(supported)
                    THEN set_data_format(supported, None, supported.items[1])
                    ELSE [result |-> Return(None), value |-> None]
           second == IF Returned(first.result) /\ Truthy(data_format)
                     THEN set_data_format(supported, first.value, data_format)
                     ELSE first
       IN  /\ _data_format' = second.value
           /\ ret' = second.result
           /\ complex' = IF Returned(second.result) THEN "made" ELSE "failed"
    /\ UNCHANGED <<world, formats, slurm_log>>

\* self.data_format = data_format
SetDataFormat(data_format) ==
    /\ complex = "made"
    /\ Call("set_data_format")
    /\ LET r == set_data_format(supported_formats, _data_format, data_format)
       IN  /\ _data_format' = r.value
           /\ ret' = r.result
    /\ UNCHANGED <<world, formats, complex, supported_formats, slurm_log>>

\* value = self.data_format
GetDataFormat ==
    /\ complex = "made"
    /\ Call("get_data_format")
    /\ ret' = Return(_data_format)
    /\ UNCHANGED <<world, components>>

NextComplex ==
    \/ \E f \in ComplexFormats \cup {None}, l \in SupportedFormats : Construct(f, l)
    \/ \E f \in ComplexFormats : SetDataFormat(f)
    \/ GetDataFormat

\* a BasicComplex under its constructor and its data_format property
SpecComplex == Init /\ [][NextComplex]_vars

(***************************************************************************)
(* pywps.processing.slurm: Slurm.start.  What start does outside the       *)
(* process (the job dumped, the file written, the command launched) is     *)
(* kept in slurm_log in the order it happens; the submit file is in fs.    *)
(***************************************************************************)
\* SLURM_TMPL.format(pid, env, prefix, filename): the lines of the script
SLURM_TMPL(pid, env, prefix, filename) ==
    << <<"#!/bin/bash">>,
       <<"#SBATCH -e /tmp/", pid, ".err">>,
       <<"#SBATCH -o /tmp/", pid, ".out">>,
       <<"#SBATCH -J ", pid>>,
       <<"#SBATCH --time=00:30:00">>,
       <<"#set -eo pipefail -o nounset">>,
       <<"export PATH=\"", prefix, "/bin:$PATH\"">>,
       <<"source activate ", env, ";launch \"", filename, "\"">> >>

\* what config.get_config_value('extra', 'host') may give
Hosts == {None, EmptyText, Str("cluster")}
\* what config.get_config_value('server', 'workdir') may give
WorkDirs == {None, Str("/w")}
\* the file names job.dump() may return
DumpFiles == {Str("/w/job1.dump"), Str("/w/job2.dump")}
\* job.process.uuid
Uuids == {Str("u1"), Str("u2")}

\* the name tempfile.mkstemp(prefix='slurm_', suffix='.submit', dir=workdir)
\* gives the n-th temp file
mkstemp_submit(workdir, n) ==
    (IF workdir = None THEN TempDir ELSE workdir.s)
        \o <<"/", "slurm_">> \o NatDigits(n) \o <<".submit">>

\* Slurm._build_submit_file: the file it writes and what it returns (it has
\* no return statement)
_build_submit_file(dump_file_name, workdir, uuid, n) ==
    [submit_file_name |-> mkstemp_submit(workdir, n),
     contents |-> SLURM_TMPL(uuid, Str("emu"), Str("/home/pingu/anaconda"), dump_file_name),
     returns |-> None]

\* sbatch(filename, host): the command the launcher launches
sbatch(filename, host) ==
    [op |-> "launch",
     command |-> <<"sbatch ", text_type(filename)>>,
     host |-> IF Truthy(host) THEN host ELSE Str("localhost")]

\* Slurm.start, where the configuration has host and workdir and the job
\* dumps itself to dump_file_name
Start(host, workdir, dump_file_name, uuid) ==
    /\ Call("start")
    /\ ntemp < MaxTemp
    /\ LET built == _build_submit_file(dump_file_name, workdir, uuid, ntemp + 1)
           submit_file_name == built.returns
       IN  /\ ntemp' = ntemp + 1
           /\ fs' = (built.submit_file_name :> built.contents) @@ fs
           /\ slurm_log' = slurm_log \o
                  << [op |-> "dump", file |-> dump_file_name],
                     [op |-> "write", file |-> PyText(built.submit_file_name)],
                     sbatch(submit_file_name, host) >>
    /\ ret' = Return(None)
    /\ UNCHANGED <<streams, formats, negotiator>>

NextSlurm ==
    \E host \in Hosts, workdir \in WorkDirs, dump_file_name \in DumpFiles, uuid \in Uuids :
        Start(host, workdir, dump_file_name, uuid)

\* Slurm jobs started one after another
SpecSlurm == Init /\ [][NextSlurm]_vars

(***************************************************************************)
(* Properties.                                                             *)
(***************************************************************************)
\* the characters stream object id has not delivered yet
Unread(id) == SubSeq(streams[id].content, streams[id].pos + 1, Len(streams[id].content))

\* the text a STREAM or DATA source stands for: what the stream still holds,
\* or the text form of the value
SourceText == IF source_type = STREAM THEN Unread(source.id) ELSE text_type(source).s

\* this step is a call of op
Calls(op) == lastOp' = op

\* ret' is a path of a file holding contents
ReturnsFileWith(contents) ==
    /\ Returned(ret')
    /\ IsText(ret'.val)
    /\ ret'.val.s \in DOMAIN fs'
    /\ fs'[ret'.val.s] = contents

\* C1: on a handle whose source is a stream or a value, the first get_file
\* creates exactly one temp file holding the text form of the source, and a
\* get_file that follows a get_file returns the same path and creates no file.
C1_FirstGetFileMaterialises ==
    [][ (Calls("get_file") /\ (source_type = STREAM \/ source_type = DATA)) =>
          /\ ntemp = 0 => (ntemp' = 1 /\ ReturnsFileWith(SourceText))
          /\ lastOp = "get_file" => (ret' = ret /\ ntemp' = ntemp) ]_vars

\* C2: a get_file that returns a path returns a file holding the text of the
\* source set most recently, never that of a source set before it.
C2_GetFileReflectsLatestSource ==
    [][ (Calls("get_file") /\ (source_type = STREAM \/ source_type = DATA)
            /\ Returned(ret')) => ReturnsFileWith(SourceText) ]_vars

\* C3: under every call of the handle's interface, _tempfile once set is never
\* changed or cleared.
C3_TempfileNeverRewritten ==
    [][ _tempfile # None => _tempfile' = _tempfile ]_vars

\* C3 witness: a cached path has survived a change of source and a further
\* get_file, which returned it.
C3_Witness ==
    /\ _tempfile # None
    /\ lastOp = "get_file"
    /\ source_type = DATA
    /\ IsText(source)
    /\ ret = Return(_tempfile)
    /\ fs[_tempfile.s] # source.s

\* C4: when two threads have each called get_file on a handle whose source is
\* a stream or a text value and whose cache was empty, at most one temp file
\* exists and both calls returned the same path.
C4_AtMostOnce ==
    ((\A t \in Threads : pc[t] = "done")
        /\ (source_type = STREAM \/ (source_type = DATA /\ IsText(source))))
    => (ntemp <= 1 /\ tret[1] = tret[2])

\* the declared type of a SimpleHandler, lower-cased, when set_data knows it
Recognised ==
    /\ cls = "SimpleHandler"
    /\ Truthy(data_type)
    /\ Lower(data_type.s) \in {T_string, T_integer, T_float, T_boolean}

\* the tag of the values of a declared type
TagOf(dt) ==
    CASE dt = T_string -> "text"
      [] dt = T_integer -> "int"
      [] dt = T_float -> "float"
      [] dt = T_boolean -> "bool"

\* v equals x under the declared type's equality: v is the value of that type
\* that x denotes when the type is one set_data knows, and x itself otherwise
EqualAsDeclared(v, x) ==
    IF Recognised
    THEN /\ v.tag = TagOf(Lower(data_type.s))
         /\ Returned(convert(Lower(data_type.s), x))
         /\ v = convert(Lower(data_type.s), x).val
    ELSE v = x

\* C5: whatever the handle's class and declared type, after a set_data(x) that
\* did not raise, get_data returns a value equal to x.
C5_SetDataThenGetData ==
    [][ \A d \in RawData :
          (SetData(d) /\ Returned(ret')) => EqualAsDeclared(get_data', d) ]_vars

\* C6: on a stream source, get_data returns all the stream has not delivered
\* yet and leaves it exhausted, so that a get_data right after it returns the
\* empty text; get_stream returns the stored stream object itself and leaves
\* its position alone; no call moves a stream's position back, and a read of
\* an exhausted stream returns the empty text.
C6_StreamConsumedNotReplayed ==
    [][ /\ (source_type = STREAM /\ Calls("get_data")) =>
             /\ ret' = Return(PyText(Unread(source.id)))
             /\ Unread(source.id)' = <<>>
             /\ lastOp = "get_data" => ret' = Return(PyText(<<>>))
        /\ (source_type = STREAM /\ Calls("get_stream")) =>
             /\ ret' = Return(source)
             /\ streams' = streams
        /\ \A id \in 1..Len(streams) :
             /\ streams'[id].pos >= streams[id].pos
             /\ streams'[id].content = streams[id].content
             /\ (Calls("read") /\ Unread(id) = <<>> /\ streams' = streams)
                   => ret' = Return(PyText(<<>>)) ]_vars

\* C6 witness: a get_data on a stream source that a get_data had exhausted
\* returned the empty text.
C6_Witness ==
    /\ source_type = STREAM
    /\ lastOp = "get_data"
    /\ ret = Return(PyText(<<>>))
    /\ streams[source.id].pos = Len(streams[source.id].content)
    /\ streams[source.id].content # <<>>

\* C7 as stated: the file a get_file creates for a stream source holds the
\* stream's full contents, whatever was read from the stream before.
C7_FileHoldsFullStream ==
    [][ (Calls("get_file") /\ source_type = STREAM /\ ntemp' = ntemp + 1) =>
          ReturnsFileWith(streams[source.id].content) ]_vars

\* C7 amended: the file a get_file creates for a stream source holds what the
\* stream had not delivered yet (its full contents when nothing was read
\* before), and the call leaves the stream exhausted.
C7_FileHoldsUnreadStream ==
    [][ (Calls("get_file") /\ source_type = STREAM /\ ntemp' = ntemp + 1) =>
          /\ ReturnsFileWith(Unread(source.id))
          /\ Unread(source.id)' = <<>> ]_vars

\* C7 witness: get_file on a stream that had been read in part created a file
\* holding only the rest.
C7_Witness ==
    /\ source_type = STREAM
    /\ lastOp = "get_file"
    /\ Returned(ret)
    /\ ret = Return(_tempfile)
    /\ fs[_tempfile.s] = <<"y">>
    /\ streams[source.id].content = <<"h", "e", "y">>

\* C8: set_memory_object and get_memory_object always raise, and a
\* set_memory_object leaves source_type and source as they were.
C8_MemoryObjectRaises ==
    [][ /\ Calls("get_memory_object") => ~Returned(ret')
        /\ Calls("set_memory_object") =>
             (~Returned(ret') /\ source_type' = source_type /\ source' = source) ]_vars

\* C9: on a handle no source was set on, get_data, get_file and get_stream
\* raise; none returns.
C9_NoSourceRaises ==
    (source_type = NoSourceType /\ lastOp \in {"get_data", "get_file", "get_stream"})
    => ~Returned(ret)

\* C10: on a SimpleHandler whose declared type is string, integer, float or
\* boolean, a stored value is of the declared type, and so is what get_data
\* returns for it.
C10_StoredValueHasDeclaredType ==
    (Recognised /\ source_type = DATA) =>
        /\ source.tag = TagOf(Lower(data_type.s))
        /\ get_data.tag = TagOf(Lower(data_type.s))
        /\ lastOp = "get_data" => ret = Return(source)

\* C10 witness: an integer handle holds the integer 7 that get_data returned,
\* where the texts written were "7" or its base64 form.
C10_Witness ==
    /\ cls = "SimpleHandler"
    /\ data_type = PyText(T_integer)
    /\ source_type = DATA
    /\ lastOp = "get_data"
    /\ ret = Return(PyInt(7))

\* a SimpleHandler whose declared type, lower-cased, is one of types
Declared(types) ==
    /\ cls = "SimpleHandler"
    /\ Truthy(data_type)
    /\ Lower(data_type.s) \in types

\* C11: on a SimpleHandler whose declared type is unset or is no recognised
\* type name, set_data(v) stores v unconverted as the base handle does: after
\* it source_type is DATA and get_data returns v.
C11_UnsetTypeStoresUnconverted ==
    [][ \A d \in RawData :
          (SetData(d) /\ cls = "SimpleHandler" /\ ~Recognised) =>
              (source_type' = DATA /\ get_data' = d) ]_vars

\* the texts a caller passes to set_data
RawTexts == {d \in RawData : IsText(d)}

\* C12: on a SimpleHandler declared boolean, set_data(text) raises for no text
\* and stores true when the text is "true" in any letter case, false for every
\* other text.
C12_BooleanNeverRaises ==
    [][ (Calls("set_data") /\ Declared({T_boolean})) =>
          \A d \in RawTexts :
              SetData(d) =>
                  /\ ret' = Return(None)
                  /\ source_type' = DATA
                  /\ source' = PyBool(d.s \in {<<"t", "r", "u", "e">>,
                                               <<"T", "R", "U", "E">>}) ]_vars

\* C12 witness: a boolean handle holds true after set_data("TRUE").
C12_Witness ==
    /\ Declared({T_boolean})
    /\ lastOp = "set_data"
    /\ ret = Return(None)
    /\ source_type = DATA
    /\ source = PyBool(TRUE)

\* the texts of RawTexts that denote no number
NonNumeric == {PyText(<<"T", "R", "U", "E">>)}

\* C13: on a SimpleHandler declared integer or float, set_data of a text that
\* denotes no number raises ValueError and leaves source_type, source and
\* _tempfile as they were.
C13_FailedConversionKeepsState ==
    [][ (Calls("set_data") /\ Declared({T_integer, T_float})) =>
          \A d \in NonNumeric :
              SetData(d) =>
                  /\ ret' = Raise("ValueError")
                  /\ source_type' = source_type
                  /\ source' = source
                  /\ _tempfile' = _tempfile ]_vars

\* C13 witness: a float handle that held .5 and had materialised it still
\* holds both after a set_data that raised ValueError.
C13_Witness ==
    /\ Declared({T_float})
    /\ lastOp = "set_data"
    /\ ret = Raise("ValueError")
    /\ source_type = DATA
    /\ source = PyFloat(5, 1)
    /\ _tempfile # None

\* data_format is the same as some member of supported_formats
SameAsSome(data_format) ==
    /\ supported_formats.tag = "list"
    /\ \E i \in 1..Len(supported_formats.items) :
           same_as(data_format, supported_formats.items[i])

\* C14: on a constructed BasicComplex, after any sequence of accepted and
\* rejected assignments to data_format, _data_format is unset or the same as
\* some member of supported_formats.
C14_ActiveFormatSupported ==
    complex = "made" => (_data_format = None \/ SameAsSome(_data_format))

\* C14 witness: an assignment was rejected on a BasicComplex whose data format
\* came from an accepted assignment, not from the constructor's default.
C14_Witness ==
    /\ complex = "made"
    /\ lastOp = "set_data_format"
    /\ ret = Raise("InvalidParameterValue")
    /\ _data_format # None
    /\ _data_format # supported_formats.items[1]
    /\ SameAsSome(_data_format)

\* C15: an assignment to data_format of a format that is the same as no member
\* of supported_formats (a non-empty list, an empty list, or None when none
\* was supplied) raises InvalidParameterValue and leaves _data_format as it
\* was.
C15_RejectionRaisesInvalidParameterValue ==
    [][ \A f \in ComplexFormats :
          (SetDataFormat(f) /\ ~SameAsSome(f)) =>
              /\ ret' = Raise("InvalidParameterValue")
              /\ _data_format' = _data_format ]_vars

\* C16: an assignment to data_format is accepted iff the format is the same as
\* some member of supported_formats, and then _data_format is the format
\* assigned, validator included; a BasicComplex constructed with a non-empty
\* supported_formats and no data_format has the first entry as _data_format,
\* and one constructed with a supported data_format has that one.
C16_AcceptedFormatIsTheCallers ==
    [][ /\ Calls("set_data_format") =>
             \A f \in ComplexFormats :
                 SetDataFormat(f) =>
                     /\ Returned(ret') <=> SameAsSome(f)
                     /\ Returned(ret') => _data_format' = f
        /\ Calls("BasicComplex") =>
           \A f \in ComplexFormats \cup {None}, l \in SupportedFormats :
             Construct(f, l) =>
                 /\ (f = None /\ l # None /\ l.items # <<>>) =>
                        (complex' = "made" /\ _data_format' = l.items[1])
                 /\ (f # None /\ l # None
                       /\ \E i \in 1..Len(l.items) : same_as(f, l.items[i])) =>
                        (complex' = "made" /\ _data_format' = f) ]_vars

\* C16 witness: an accepted assignment left a format with a validator as
\* _data_format where no supported format has one.
C16_Witness ==
    /\ complex = "made"
    /\ lastOp = "set_data_format"
    /\ ret = Return(None)
    /\ _data_format.validate = PyFunc("validategml")
    /\ \A i \in 1..Len(supported_formats.items) :
           supported_formats.items[i].validate = None

\* the fields same_as compares, an unset encoding or schema taken for ''
FormatKey(f) ==
    << f._mime_type,
       IF f._encoding = None THEN EmptyText ELSE f._encoding,
       IF f._schema = None THEN EmptyText ELSE f._schema >>

\* C17: same_as is true iff mime type, encoding and schema are pairwise equal,
\* an unset encoding or schema counting as ''; extension and validator do not
\* change the result; same_as is reflexive and symmetric, and false for
\* different mime types.
C17_SameAsComparesThreeFields ==
    [][ Calls("same_as") =>
        \A x \in Held, y \in Held :
          SameAs(x, y) =>
              /\ ret' = Return(PyBool(FormatKey(x) = FormatKey(y)))
              /\ \A v \in Validators, e \in Extensions :
                     same_as([x EXCEPT !.validate = v, !.extension = e], y) = same_as(x, y)
              /\ same_as(x, x)
              /\ same_as(x, y) = same_as(y, x)
              /\ x._mime_type # y._mime_type => ~same_as(x, y) ]_vars

\* C17 witness: same_as returned True for two Formats, one with encoding unset
\* and one with encoding '', that differ in validator and extension.
C17_Witness ==
    /\ lastOp = "same_as"
    /\ ret = Return(PyBool(TRUE))
    /\ fa # None /\ fb # None
    /\ fa._encoding = None
    /\ fb._encoding = EmptyText
    /\ fa.validate # fb.validate
    /\ fa.extension # fb.extension

\* C18: for a name that is a key of the catalog, get_format returns a Format
\* with the entry's mime type, extension and schema and with the validator
\* given; for any other name, a key in another letter case included, it
\* returns a Format with mime type 'None' and the validator given.
C18_GetFormatLooksUpCatalog ==
    [][ Calls("get_format") =>
        \A n \in FormatNames, v \in Validators :
          GetFormat(n, v) =>
              /\ Returned(ret')
              /\ ret'.val.tag = "Format"
              /\ ret'.val.validate = v
              /\ n \in DOMAIN FORMATS =>
                     /\ ret'.val._mime_type = FORMATS[n].mime_type
                     /\ ret'.val.extension = FORMATS[n].extension
                     /\ ret'.val._schema = FORMATS[n].schema
              /\ n \in {Str("geojson"), Str("Json"), Str("CSV")} =>
                     ret'.val._mime_type = Str("None") ]_vars

\* C18 witness: a lookup of GEOJSON with a validator followed one of a name
\* in another case, which gave the 'None' Format.
C18_Witness ==
    /\ lastOp = "get_format"
    /\ fa # None /\ fb # None
    /\ fa._mime_type = Str("application/vnd.geo+json")
    /\ fa.extension = Str(".geojson")
    /\ fa.validate = PyFunc("validategml")
    /\ fb._mime_type = Str("None")
    /\ fb.validate = PyFunc("validategml")

\* f has a value for field that is neither unset nor ''
NonEmpty(v) == v # None /\ v # EmptyText

\* C19: describe_xml returns a Format element whose children are, in order,
\* MimeType, Encoding iff the encoding is not empty, Schema iff the schema is
\* not empty; with both empty MimeType is the only child.
C19_DescribeXmlChildren ==
    [][ Calls("describe_xml") =>
        \A x \in Held :
          DescribeXml(x) =>
              /\ Returned(ret')
              /\ ret'.val.tag = "Format"
              /\ ret'.val.children =
                     <<Element("MimeType", x._mime_type)>>
                     \o (IF NonEmpty(x._encoding)
                         THEN <<Element("Encoding", x._encoding)>> ELSE <<>>)
                     \o (IF NonEmpty(x._schema)
                         THEN <<Element("Schema", x._schema)>> ELSE <<>>)
              /\ (~NonEmpty(x._encoding) /\ ~NonEmpty(x._schema)) =>
                     Len(ret'.val.children) = 1 ]_vars

\* C19 witness: describe_xml of a Format with encoding '' and schema unset
\* returned an element with the MimeType child only.
C19_Witness ==
    /\ lastOp = "describe_xml"
    /\ fa # None
    /\ fa._encoding = EmptyText
    /\ fa._schema = None
    /\ fb = fa
    /\ ret = Return([tag |-> "Format",
                     children |-> <<Element("MimeType", fa._mime_type)>>])

\* C20: Slurm.start dumps the job, writes a submit script whose launch line
\* names the dump file, then launches sbatch once, with the path of the script
\* it has just written and the configured host, "localhost" when none is
\* configured.
C20_StartSubmitsWrittenScript ==
    [][ \A host \in Hosts, workdir \in WorkDirs, dump_file_name \in DumpFiles,
           uuid \in Uuids :
          Start(host, workdir, dump_file_name, uuid) =>
              LET n == Len(slurm_log')
                  written == slurm_log'[n - 1].file
              IN  /\ n = Len(slurm_log) + 3
                  /\ slurm_log'[n - 2] = [op |-> "dump", file |-> dump_file_name]
                  /\ slurm_log'[n - 1].op = "write"
                  /\ written.s \notin DOMAIN fs
                  /\ fs'[written.s][8] =
                         <<"source activate ", Str("emu"), ";launch \"", dump_file_name, "\"">>
                  /\ slurm_log'[n] =
                         [op |-> "launch",
                          command |-> <<"sbatch ", written>>,
                          host |-> IF host \in {None, EmptyText} THEN Str("localhost")
                                   ELSE host] ]_vars

\* C21: get_data, get_stream and get_file never change source_type or source;
\* get_file on a FILE source returns the stored path, creates no file and
\* leaves _tempfile as it was; the only field of the handle a read changes is
\* _tempfile, and only in a get_file on a STREAM or DATA source with no
\* cached file.
C21_ReadsKeepSource ==
    [][ (lastOp' \in {"get_data", "get_stream", "get_file"}) =>
          /\ source_type' = source_type
          /\ source' = source
          /\ <<cls, data_type, _workdir>>' = <<cls, data_type, _workdir>>
          /\ (Calls("get_file") /\ source_type = FILE) =>
                 /\ ret' = Return(source)
                 /\ fs' = fs
                 /\ ntemp' = ntemp
                 /\ _tempfile' = _tempfile
          /\ _tempfile' # _tempfile =>
                 /\ Calls("get_file")
                 /\ source_type \in {STREAM, DATA}
                 /\ _tempfile = None ]_vars

\* C21 witness: get_file on a FILE source returned the stored path and left
\* the file cached for an earlier source where it was.
C21_Witness ==
    /\ lastOp = "get_file"
    /\ source_type = FILE
    /\ ret = Return(source)
    /\ _tempfile # None
    /\ _tempfile # source
    /\ ntemp = 1

\* the full text a stream of a FILE or DATA source delivers: the contents of
\* the file, or the text form of the value
FullText == IF source_type = FILE THEN fs[source.s] ELSE text_type(source).s

\* C22: on a FILE or DATA source every get_stream returns a new stream object
\* positioned at the start of the full text of the source and leaves the
\* streams made before as they were; a read of one stream delivers that
\* stream's own next characters and leaves every other stream as it was.
C22_GetStreamIsFresh ==
    [][ /\ (Calls("get_stream") /\ source_type \in {FILE, DATA}) =>
             /\ ret' = Return(StreamRef(Len(streams) + 1))
             /\ Len(streams') = Len(streams) + 1
             /\ streams'[Len(streams) + 1] = [content |-> FullText, pos |-> 0]
             /\ \A id \in 1..Len(streams) : streams'[id] = streams[id]
        /\ Calls("read") =>
             \A id \in 1..Len(streams) :
                 ReadStream(id, ReadSize) =>
                     /\ Returned(ret')
                     /\ SubSeq(streams[id].content, 1, streams[id].pos) \o ret'.val.s
                            = SubSeq(streams[id].content, 1, streams'[id].pos)
                     /\ streams'[id].pos =
                            IF streams[id].pos + ReadSize > Len(streams[id].content)
                            THEN Len(streams[id].content)
                            ELSE streams[id].pos + ReadSize
                     /\ \A other \in 1..Len(streams) :
                            other # id => streams'[other] = streams[other] ]_vars

\* C22 witness: of two streams taken of one DATA source, the first was read
\* to its end and a read of the second then delivered the text from its start.
C22_Witness ==
    /\ source_type = DATA
    /\ Len(streams) = 2
    /\ streams[1].content = <<".", "5", "0">>
    /\ streams[2].content = <<".", "5", "0">>
    /\ streams[1].pos = 3
    /\ streams[2].pos = 2
    /\ lastOp = "read"
    /\ ret = Return(PyText(<<".", "5">>))

\* the well-formed base64 texts a caller passes to set_base64
ValidB64 == {PyText(<<"N", "w", "=", "=">>)}

\* C23: on a base handle, set_base64(e) of a well-formed base64 text e makes
\* DATA the source type with the decoded text as source, and a get_base64
\* after it returns e; after set_data(v), for every value v, get_base64
\* returns a text which set_base64 decodes back to v.
C23_Base64RoundTrip ==
    [][ /\ Calls("set_base64") =>
             \A e \in ValidB64 :
                 SetBase64(e) =>
                     /\ ret' = Return(None)
                     /\ source_type' = DATA
                     /\ Return(source') = b64decode(e)
                     /\ b64encode(source') = Return(e)
        /\ (Calls("get_base64") /\ lastOp = "set_data") =>
             /\ Returned(ret')
             /\ b64decode(ret'.val) = Return(source) ]_vars

====
